---- MODULE Spec2Model ----
(***************************************************************************)
(* Model of scripts/balance-vidpid.py: the function balance_vidpid and the *)
(* command-line loop main.                                                 *)
(*                                                                         *)
(* Python integers are unbounded and their bitwise operators act on the    *)
(* infinite two's-complement form.  A Python int is modelled as a record   *)
(*   [neg |-> BOOLEAN, limbs |-> sequence of 16-bit limbs, lowest first]   *)
(* in two's complement, every limb above the sequence being 65535 when neg *)
(* and 0 otherwise; the sequence never ends with such a limb (canonical    *)
(* form), so two records are equal exactly when the integers are.          *)
(*                                                                         *)
(* Strings are sequences of one-character strings.                         *)
(***************************************************************************)
EXTENDS Integers, Sequences, FiniteSets, TLC

VARIABLES
    argv,      \* sys.argv[1:], a sequence of strings
    idx,       \* position of the for loop of main in argv (next to process)
    pc,        \* "running" while main runs, "exited" once the process ended
    stdout,    \* the lines printed so far
    status,    \* the exit status of the process (-1 while it runs)
    stderr,    \* the uncaught exception, if any: [type, msg], else NoError
    vidpid,    \* the argument of a direct call of balance_vidpid
    outcome,   \* what that call did: Pending, or [ok, value, msg]
    again      \* what balance_vidpid did on the value that call returned

vars == <<argv, idx, pc, stdout, status, stderr, vidpid, outcome, again>>

(***************************************************************************)
(* Python integers                                                         *)
(***************************************************************************)
Ext(neg) == IF neg THEN 65535 ELSE 0

RECURSIVE Strip(_, _)
Strip(s, e) ==
    IF s # <<>> /\ s[Len(s)] = e THEN Strip(SubSeq(s, 1, Len(s) - 1), e) ELSE s

PyInt(neg, limbs) == [neg |-> neg, limbs |-> Strip(limbs, Ext(neg))]

LimbAt(a, i) == IF i <= Len(a.limbs) THEN a.limbs[i] ELSE Ext(a.neg)

MaxOf(m, n) == IF m >= n THEN m ELSE n

RECURSIVE LimbOr(_, _, _)
LimbOr(x, y, n) ==
    IF n = 0 THEN 0
    ELSE (IF x % 2 = 1 \/ y % 2 = 1 THEN 1 ELSE 0)
         + 2 * LimbOr(x \div 2, y \div 2, n - 1)

RECURSIVE LimbAnd(_, _, _)
LimbAnd(x, y, n) ==
    IF n = 0 THEN 0
    ELSE (IF x % 2 = 1 /\ y % 2 = 1 THEN 1 ELSE 0)
         + 2 * LimbAnd(x \div 2, y \div 2, n - 1)

\* a | b
PyOr(a, b) ==
    LET n == MaxOf(Len(a.limbs), Len(b.limbs))
    IN  PyInt(a.neg \/ b.neg,
              [i \in 1..n |-> LimbOr(LimbAt(a, i), LimbAt(b, i), 16)])

\* a & b
PyAnd(a, b) ==
    LET n == MaxOf(Len(a.limbs), Len(b.limbs))
    IN  PyInt(a.neg /\ b.neg,
              [i \in 1..n |-> LimbAnd(LimbAt(a, i), LimbAt(b, i), 16)])

\* ~a
PyInvert(a) ==
    PyInt(~a.neg, [i \in 1..Len(a.limbs) |-> 65535 - a.limbs[i]])

\* a << 16
PyShl16(a) == PyInt(a.neg, <<0>> \o a.limbs)

RECURSIVE IncrLimbs(_)
IncrLimbs(s) ==
    IF s = <<>> THEN [limbs |-> <<>>, carry |-> 1]
    ELSE IF s[1] = 65535
         THEN LET r == IncrLimbs(Tail(s))
              IN  [limbs |-> <<0>> \o r.limbs, carry |-> r.carry]
         ELSE [limbs |-> <<s[1] + 1>> \o Tail(s), carry |-> 0]

\* a + 1
PyIncr(a) ==
    LET r == IncrLimbs(a.limbs)
    IN  IF r.carry = 0 THEN PyInt(a.neg, r.limbs)
        ELSE IF a.neg THEN PyInt(FALSE, r.limbs)
        ELSE PyInt(FALSE, r.limbs \o <<1>>)

\* -a
PyNeg(a) == PyIncr(PyInvert(a))

\* abs(a)
PyAbs(a) == IF a.neg THEN PyNeg(a) ELSE a

Zero == PyInt(FALSE, <<>>)

\* a <= n for a literal 0 <= n < 65536
PyLeqSmall(a, n) ==
    \/ a.neg
    \/ Len(a.limbs) = 0
    \/ Len(a.limbs) = 1 /\ a.limbs[1] <= n

(***************************************************************************)
(* Strings: bin(), "{:#08x}".format() and int(s, 16)                       *)
(***************************************************************************)
HexChars ==
    <<"0", "1", "2", "3", "4", "5", "6", "7",
      "8", "9", "a", "b", "c", "d", "e", "f">>

UpperHexChars ==
    <<"0", "1", "2", "3", "4", "5", "6", "7",
      "8", "9", "A", "B", "C", "D", "E", "F">>

IsHexChar(c) == \E d \in 1..16 : HexChars[d] = c \/ UpperHexChars[d] = c

HexVal(c) == CHOOSE d \in 0..15 : HexChars[d + 1] = c \/ UpperHexChars[d + 1] = c

\* the n digits of limb x in the given base, highest first
RECURSIVE LimbDigits(_, _, _)
LimbDigits(x, base, n) ==
    IF n = 0 THEN <<>>
    ELSE LimbDigits(x \div base, base, n - 1) \o <<x % base>>

RECURSIVE AllDigits(_, _, _)
AllDigits(limbs, base, n) ==
    IF limbs = <<>> THEN <<>>
    ELSE AllDigits(Tail(limbs), base, n) \o LimbDigits(limbs[1], base, n)

RECURSIVE StripLeadingZeros(_)
StripLeadingZeros(d) ==
    IF d # <<>> /\ d[1] = 0 THEN StripLeadingZeros(Tail(d)) ELSE d

\* the digits of abs(a), highest first, without leading zeros ("0" for 0)
MagnitudeDigits(a, base, n) ==
    LET d == StripLeadingZeros(AllDigits(PyAbs(a).limbs, base, n))
    IN  [i \in 1..MaxOf(Len(d), 1) |-> IF d = <<>> THEN "0" ELSE HexChars[d[i] + 1]]

\* bin(a)
Bin(a) ==
    (IF a.neg THEN <<"-">> ELSE <<>>) \o <<"0", "b">> \o MagnitudeDigits(a, 2, 16)

\* s.count(c)
RECURSIVE Count(_, _)
Count(s, c) ==
    IF s = <<>> THEN 0 ELSE (IF s[1] = c THEN 1 ELSE 0) + Count(Tail(s), c)

FormatWidth == 8

\* "{:#08x}".format(a): sign, then "0x", then zeros up to FormatWidth
\* characters in all, then the digits
Format(a) ==
    LET sign   == IF a.neg THEN <<"-">> ELSE <<>>
        digits == MagnitudeDigits(a, 16, 4)
        used   == Len(sign) + 2 + Len(digits)
        pad    == IF used < FormatWidth THEN FormatWidth - used ELSE 0
    IN  sign \o <<"0", "x">> \o [i \in 1..pad |-> "0"] \o digits

RECURSIVE DigitsValue(_)
DigitsValue(d) ==
    IF d = <<>> THEN 0 ELSE 16 * DigitsValue(SubSeq(d, 1, Len(d) - 1)) + HexVal(d[Len(d)])

RECURSIVE HexToLimbs(_)
HexToLimbs(d) ==
    IF d = <<>> THEN <<>>
    ELSE LET n == Len(d)
             k == IF n >= 4 THEN 4 ELSE n
         IN  <<DigitsValue(SubSeq(d, n - k + 1, n))>>
             \o HexToLimbs(SubSeq(d, 1, n - k))

\* int(s, 16) for strings over hex digits, "x", "X", "+", "-" and
\* characters that are none of these: an optional sign, an optional 0x
\* prefix, at least one hex digit.  [ok |-> TRUE, value |-> the integer] or
\* [ok |-> FALSE] for ValueError.
ParseInt(s) ==
    LET signed   == s # <<>> /\ s[1] \in {"-", "+"}
        unsigned == IF signed THEN Tail(s) ELSE s
        prefixed == Len(unsigned) >= 2 /\ unsigned[1] = "0"
                    /\ unsigned[2] \in {"x", "X"}
        digits   == IF prefixed THEN SubSeq(unsigned, 3, Len(unsigned))
                    ELSE unsigned
        good     == digits # <<>> /\ \A i \in 1..Len(digits) : IsHexChar(digits[i])
        mag      == PyInt(FALSE, HexToLimbs(digits))
    IN  IF ~good THEN [ok |-> FALSE]
        ELSE [ok |-> TRUE,
              value |-> IF signed /\ s[1] = "-" THEN PyNeg(mag) ELSE mag]

(***************************************************************************)
(* balance_vidpid                                                          *)
(***************************************************************************)
SmallMax == 32767        \* 0x00007fff
HammingWeight == 16

Mask32 == PyInt(FALSE, <<65535, 65535>>)   \* 0xffffffff

InvalidWeightText ==
    <<" ", "h", "a", "s", " ", "a", "n", " ", "i", "n",
      "v", "a", "l", "i", "d", " ", "H", "a", "m", "m",
      "i", "n", "g", " ", "w", "e", "i", "g", "h", "t">>

\* mutant: the test for 0 left out
NonZero_Always(v) == TRUE

\* vidpid != 0
NonZero(v) == v # Zero

\* mutant: the limit taken as 16 bits, 0xffff
IsSmall_16bit(v) == PyLeqSmall(v, 65535)

\* vidpid <= 0x00007fff
IsSmall(v) == PyLeqSmall(v, SmallMax)

\* mutant: the complement left out, (vidpid | vidpid << 16) & 0xffffffff
Mirror_NoInvert(v) == PyAnd(PyOr(v, PyShl16(v)), Mask32)

\* mutant: the shift applied before the complement,
\* (vidpid | ~(vidpid << 16)) & 0xffffffff
Mirror_ShiftFirst(v) == PyAnd(PyOr(v, PyInvert(PyShl16(v))), Mask32)

\* (vidpid | ~vidpid << 16) & 0xffffffff; ~ binds tighter than <<, and <<
\* tighter than |
Mirror(v) == PyAnd(PyOr(v, PyShl16(PyInvert(v))), Mask32)

\* mutant: only too few set bits are refused, count('1') < 16
BadWeight_Below(v) == Count(Bin(v), "1") < HammingWeight

\* mutant: the zeros are counted, count('0') != 16
BadWeight_CountsZeros(v) == Count(Bin(v), "0") # HammingWeight

\* bin(vidpid).count('1') != 16
BadWeight(v) == Count(Bin(v), "1") # HammingWeight

\* what balance_vidpid(v) does: returns a value or raises ValueError
balance_vidpid(v) ==
    IF NonZero(v)
    THEN IF IsSmall(v)
         THEN [kind |-> "return", value |-> Mirror(v)]
         ELSE IF BadWeight(v)
              THEN [kind |-> "raise", exc |-> "ValueError",
                    msg |-> Format(v) \o InvalidWeightText]
              ELSE [kind |-> "return", value |-> v]
    ELSE [kind |-> "return", value |-> v]

(***************************************************************************)
(* main                                                                    *)
(***************************************************************************)
InvalidLiteralText ==
    <<"i", "n", "v", "a", "l", "i", "d", " ", "l", "i",
      "t", "e", "r", "a", "l", " ", "f", "o", "r", " ",
      "i", "n", "t", "(", ")", " ", "w", "i", "t", "h",
      " ", "b", "a", "s", "e", " ", "1", "6", ":", " ">>

Arrow == <<" ", "=", ">", " ">>

NoError == [exc |-> "none"]
Pending == [kind |-> "pending"]

\* mutant: a failing argument is skipped and the loop goes on
main_iteration_skips ==
    /\ pc = "running"
    /\ idx <= Len(argv)
    /\ LET arg == argv[idx]
           val == ParseInt(arg)
       IN  IF val.ok /\ balance_vidpid(val.value).kind = "return"
           THEN stdout' = Append(stdout,
                    Format(val.value) \o Arrow
                    \o Format(balance_vidpid(val.value).value))
           ELSE stdout' = stdout
    /\ idx' = idx + 1
    /\ UNCHANGED <<argv, pc, status, stderr, vidpid, outcome, again>>

\* one pass of the body of "for arg in sys.argv[1:]": int(arg, 16), then
\* balance_vidpid(val), then print.  An exception of either call is not
\* caught: the interpreter reports it and the process ends with status 1,
\* the line of this argument unprinted.
main_iteration ==
    /\ pc = "running"
    /\ idx <= Len(argv)
    /\ LET arg == argv[idx]
           val == ParseInt(arg)
       IN  IF ~val.ok
           THEN /\ stderr' = [exc |-> "ValueError",
                              msg |-> InvalidLiteralText \o <<"'">> \o arg \o <<"'">>]
                /\ status' = 1
                /\ pc' = "exited"
                /\ UNCHANGED <<idx, stdout>>
           ELSE LET b == balance_vidpid(val.value)
                IN  IF b.kind = "raise"
                    THEN /\ stderr' = [exc |-> b.exc, msg |-> b.msg]
                         /\ status' = 1
                         /\ pc' = "exited"
                         /\ UNCHANGED <<idx, stdout>>
                    ELSE /\ stdout' = Append(stdout,
                                Format(val.value) \o Arrow \o Format(b.value))
                         /\ idx' = idx + 1
                         /\ UNCHANGED <<stderr, status, pc>>
    /\ UNCHANGED <<argv, vidpid, outcome, again>>

\* the loop is over: main returns and the process ends with status 0
main_return ==
    /\ pc = "running"
    /\ idx > Len(argv)
    /\ status' = 0
    /\ pc' = "exited"
    /\ UNCHANGED <<argv, idx, stdout, stderr, vidpid, outcome, again>>

(***************************************************************************)
(* The command line: up to MaxArgs arguments out of ArgPool                *)
(***************************************************************************)
MaxArgs == 3

ArgPool ==
    { <<"0">>,
      <<"1", "2", "3", "4">>,
      <<"0", "x", "1", "2", "3", "4">>,
      <<"7", "f", "f", "f">>,
      <<"8", "0", "0", "0">>,
      <<"f", "f", "f", "f", "0", "0", "0", "0">>,
      <<"-", "1">>,
      <<"1", "0", "0", "0", "0">>,
      <<"1", "0", "0", "0", "0", "7", "f", "f", "f">>,
      <<"z", "z">>,
      <<"0", "x">> }

ArgLists == UNION {[1..n -> ArgPool] : n \in 0..MaxArgs}

Init ==
    /\ argv \in ArgLists
    /\ idx = 1
    /\ pc = "running"
    /\ stdout = <<>>
    /\ status = -1
    /\ stderr = NoError
    /\ vidpid = Zero
    /\ outcome = Pending
    /\ again = Pending

Next == main_iteration \/ main_return

Spec == Init /\ [][Next]_vars

(***************************************************************************)
(* Direct calls of balance_vidpid                                          *)
(***************************************************************************)
MaxTop == 2

RECURSIVE Pow2(_)
Pow2(k) == IF k = 0 THEN 1 ELSE 2 * Pow2(k - 1)

\* 16-bit patterns: the ends, single bits, runs of low bits, and the
\* complements of both; 0x1234 and its complement 0xedcb
Patterns ==
    {0, 65535, 4660, 60875}
    \cup {Pow2(k) : k \in 0..15}
    \cup {Pow2(k) - 1 : k \in 1..15}
    \cup {65535 - Pow2(k) : k \in 0..15}
    \cup {65535 - (Pow2(k) - 1) : k \in 1..15}

FewPatterns == {0, 1, 4660, 32767, 32768, 65535}

\* every integer of 0..0xffff
Inputs16 == {PyInt(FALSE, <<lo>>) : lo \in 0..65535}

\* integers of 0..0xffffffff
Inputs32 == {PyInt(FALSE, <<lo, hi>>) : lo \in Patterns, hi \in Patterns}

\* integers of more than 32 bits
InputsWide ==
    {PyInt(FALSE, <<lo, hi, top>>) :
        lo \in FewPatterns, hi \in FewPatterns, top \in 1..MaxTop}

\* negative integers
InputsNegative ==
    {PyNeg(PyInt(FALSE, <<lo, hi>>)) : lo \in Patterns, hi \in FewPatterns} \ {Zero}

Inputs == Inputs16 \cup Inputs32 \cup InputsWide \cup InputsNegative

\* balance_vidpid(vidpid)
Call ==
    /\ outcome = Pending
    /\ outcome' = balance_vidpid(vidpid)
    /\ UNCHANGED <<argv, idx, pc, stdout, status, stderr, vidpid, again>>

\* balance_vidpid(balance_vidpid(vidpid)), when the first call returned
CallAgain ==
    /\ outcome.kind = "return"
    /\ again = Pending
    /\ again' = balance_vidpid(outcome.value)
    /\ UNCHANGED <<argv, idx, pc, stdout, status, stderr, vidpid, outcome>>

FnInit ==
    /\ vidpid \in Inputs
    /\ outcome = Pending
    /\ again = Pending
    /\ argv = <<>>
    /\ idx = 1
    /\ pc = "none"
    /\ stdout = <<>>
    /\ status = -1
    /\ stderr = NoError

FnNext == Call \/ CallAgain

FnSpec == FnInit /\ [][FnNext]_vars

(***************************************************************************)
(* Vocabulary of the properties                                            *)
(***************************************************************************)
RECURSIVE Ones(_)
Ones(x) == IF x = 0 THEN 0 ELSE (x % 2) + Ones(x \div 2)

RECURSIVE SumOnes(_)
SumOnes(limbs) == IF limbs = <<>> THEN 0 ELSE Ones(limbs[1]) + SumOnes(Tail(limbs))

\* number of set bits of a non-negative integer
Weight(v) == SumOnes(v.limbs)

\* 0 <= v <= 0xffffffff
InRange32(v) == ~v.neg /\ Len(v.limbs) <= 2

\* 1 <= v <= 0x7fff
In15(v) == ~v.neg /\ Len(v.limbs) = 1 /\ v.limbs[1] <= 32767

\* 0x8000 <= v <= 0xffffffff
InUpper(v) ==
    /\ InRange32(v)
    /\ \/ Len(v.limbs) = 2
       \/ Len(v.limbs) = 1 /\ v.limbs[1] >= 32768

Small(n) == PyInt(FALSE, <<n>>)

Called == outcome # Pending
Returned(v) == [kind |-> "return", value |-> v]

\* the text before the first blank, and after the last blank, of a line
RECURSIVE UpToBlank(_)
UpToBlank(s) ==
    IF s = <<>> \/ s[1] = " " THEN <<>> ELSE <<s[1]>> \o UpToBlank(Tail(s))

RECURSIVE AfterBlanks(_)
AfterBlanks(s) ==
    IF s = <<>> \/ s[Len(s)] = " " THEN <<>>
    ELSE AfterBlanks(SubSeq(s, 1, Len(s) - 1)) \o <<s[Len(s)]>>

\* the digits a formatted number shows after its sign and its 0x
ShownDigits(s) ==
    LET t == IF s # <<>> /\ s[1] = "-" THEN Tail(s) ELSE s
    IN  SubSeq(t, 3, Len(t))

\* the argument parses and balances
ArgSucceeds(a) ==
    /\ ParseInt(a).ok
    /\ balance_vidpid(ParseInt(a).value).kind = "return"

\* index of the first failing argument, Len(argv) + 1 when there is none
FirstFailure ==
    CHOOSE k \in 1..(Len(argv) + 1) :
        /\ \A j \in 1..(k - 1) : ArgSucceeds(argv[j])
        /\ k <= Len(argv) => ~ArgSucceeds(argv[k])

(***************************************************************************)
(* Properties                                                              *)
(***************************************************************************)

\* C1: for every v with 1 <= v <= 0x7fff, balance_vidpid(v) returns, without
\* raising, a value of 0..0xffffffff with exactly 16 set bits.
C1_SmallIsBalanced ==
    (Called /\ In15(vidpid)) =>
        /\ outcome.kind = "return"
        /\ InRange32(outcome.value)
        /\ Weight(outcome.value) = 16

C1_Witness ==
    /\ vidpid = Small(21845)
    /\ outcome.kind = "return"
    /\ Weight(outcome.value) = 16

\* C2: for v in 0x8000..0xffffffff, balance_vidpid(v) raises exactly when the
\* weight of v is not 16, the exception is a ValueError whose message begins
\* with a hex literal that reads back as v; it raises for no v in 0..0x7fff.
C2_RaisesOnBadWeight ==
    (Called /\ InRange32(vidpid)) =>
        /\ outcome.kind = "raise" <=> (InUpper(vidpid) /\ Weight(vidpid) # 16)
        /\ outcome.kind = "raise" =>
              /\ outcome.exc = "ValueError"
              /\ ParseInt(UpToBlank(outcome.msg)) = [ok |-> TRUE, value |-> vidpid]

C2_Witness ==
    /\ vidpid = PyInt(FALSE, <<0, 1>>)
    /\ outcome.kind = "raise"

\* C3: for v in 0x8000..0xffffffff of weight 16, balance_vidpid(v) returns v.
C3_BalancedUnchanged ==
    (Called /\ InUpper(vidpid) /\ Weight(vidpid) = 16) =>
        outcome = Returned(vidpid)

C3_Witness ==
    /\ vidpid = PyInt(FALSE, <<0, 65535>>)
    /\ outcome = Returned(vidpid)

\* C4: balance_vidpid(0) returns 0, and 0 is the only input of 0..0xffffffff
\* whose result is 0.
C4_ZeroOnly ==
    Called =>
        /\ vidpid = Zero => outcome = Returned(Zero)
        /\ (InRange32(vidpid) /\ outcome = Returned(Zero)) => vidpid = Zero

C4_Witness == vidpid = Zero /\ outcome = Returned(Zero)

\* C5: for v in 0..0xffffffff, when balance_vidpid(v) returns r, then
\* balance_vidpid(r) returns r as well.
C5_Idempotent ==
    (InRange32(vidpid) /\ again # Pending) => again = outcome

C5_Witness ==
    /\ In15(vidpid)
    /\ again # Pending
    /\ again.value # vidpid

\* C6: main handles the arguments in order and stops at the first that does
\* not parse or does not balance: at every moment the printed lines are one
\* per argument before the loop position, in order, each showing its
\* argument's value and balanced value, none at or after the first failing
\* argument; the process ends with status 0 exactly when no argument fails,
\* and then (or at the failure) the lines are those of the arguments before
\* the first failing one.
C6_StopsAtFirstFailure ==
    /\ Len(stdout) = idx - 1
    /\ Len(stdout) <= FirstFailure - 1
    /\ \A k \in 1..Len(stdout) :
          /\ ParseInt(UpToBlank(stdout[k])) = ParseInt(argv[k])
          /\ ParseInt(AfterBlanks(stdout[k])).value
                = balance_vidpid(ParseInt(argv[k]).value).value
    /\ pc = "exited" =>
          /\ Len(stdout) = FirstFailure - 1
          /\ status = 0 <=> FirstFailure = Len(argv) + 1
          /\ status # 0 <=> stderr # NoError

C6_Witness ==
    /\ pc = "exited"
    /\ Len(argv) = 3
    /\ FirstFailure = 2
    /\ Len(stdout) = 1
    /\ status = 1

\* C7: every printed line shows the original and the balanced value each
\* with at least 8 hex digits (zero-padded to 8 digits).
C7_EightDigits ==
    \A k \in 1..Len(stdout) :
        /\ Len(ShownDigits(UpToBlank(stdout[k]))) >= 8
        /\ Len(ShownDigits(AfterBlanks(stdout[k]))) >= 8

\* C8: for every v with 1 <= v <= 0x7fff, balance_vidpid(v) is
\* (0xffff - v) * 0x10000 + v: low half v, high half the 16-bit complement
\* of v, nothing above bit 31.
C8_MirrorFormula ==
    (Called /\ In15(vidpid)) =>
        outcome = Returned([neg |-> FALSE,
                            limbs |-> <<vidpid.limbs[1], 65535 - vidpid.limbs[1]>>])

C8_Witness ==
    /\ vidpid = Small(4660)
    /\ outcome = Returned([neg |-> FALSE, limbs |-> <<4660, 60875>>])

\* C9: for every integer input, negative and wider than 32 bits included, a
\* value balance_vidpid returns lies in 0..0xffffffff and is 0 or has
\* exactly 16 set bits.
C9_ResultAlwaysBalanced ==
    (Called /\ outcome.kind = "return") =>
        /\ InRange32(outcome.value)
        /\ outcome.value = Zero \/ Weight(outcome.value) = 16

\* C10: 0x7fff is mirrored to 0x80007fff; every v of 0x8000..0xffff is
\* checked, never mirrored: 0x8000..0xfffe raise, 0xffff is returned as is.
C10_Boundary ==
    Called =>
        /\ vidpid = Small(32767) =>
              outcome = Returned([neg |-> FALSE, limbs |-> <<32767, 32768>>])
        /\ (InUpper(vidpid) /\ Len(vidpid.limbs) = 1 /\ vidpid.limbs[1] <= 65534) =>
              outcome.kind = "raise"
        /\ vidpid = Small(65535) => outcome = Returned(vidpid)

C10_Witness ==
    /\ vidpid = Small(32768)
    /\ outcome.kind = "raise"

====
